---- MODULE Spec2Model ----
(***************************************************************************)
(* Two-pass YAML variable substitution (src/src/lib.rs).                   *)
(*                                                                         *)
(* Strings are sequences of one-character strings, so that split('.'),     *)
(* starts_with("ENV:"), &key[4..] and parse::<usize>() are computed as the *)
(* code computes them.  The placeholder delimiters "${{" and "}}" and the   *)
(* document separator "---" are single symbols of the text alphabet.       *)
(***************************************************************************)
EXTENDS Integers, Sequences, FiniteSets, TLC

(***************************************************************************)
(* Option<T>                                                               *)
(***************************************************************************)
None == [some |-> FALSE]

Some(x) == [some |-> TRUE, v |-> x]

(***************************************************************************)
(* Characters, decimal parsing and printing                                *)
(***************************************************************************)
Digits == <<"0", "1", "2", "3", "4", "5", "6", "7", "8", "9">>

IsDigit(c) == \E i \in 1..10 : Digits[i] = c

DigitVal(c) == (CHOOSE i \in 1..10 : Digits[i] = c) - 1

AllDigits(s) == s # <<>> /\ \A i \in 1..Len(s) : IsDigit(s[i])

RECURSIVE DecValue(_)
DecValue(s) ==
    IF s = <<>> THEN 0
    ELSE 10 * DecValue(SubSeq(s, 1, Len(s) - 1)) + DigitVal(s[Len(s)])

RECURSIVE NatToString(_)
NatToString(n) ==
    IF n < 10 THEN <<Digits[n + 1]>>
    ELSE NatToString(n \div 10) \o <<Digits[(n % 10) + 1]>>

\* i64::to_string
IntToString(i) == IF i < 0 THEN <<"-">> \o NatToString(-i) ELSE NatToString(i)

\* str::parse::<usize>(): an optional '+', then one or more decimal digits
ParseUsize(s) ==
    LET body == IF s # <<>> /\ s[1] = "+" THEN Tail(s) ELSE s
    IN  IF AllDigits(body) THEN Some(DecValue(body)) ELSE None

\* str::parse::<i64>(): an optional '+' or '-', then one or more decimal digits
ParseI64(s) ==
    LET signed == s # <<>> /\ s[1] \in {"+", "-"}
        body == IF signed THEN Tail(s) ELSE s
    IN  IF ~AllDigits(body) THEN None
        ELSE IF signed /\ s[1] = "-" THEN Some(-DecValue(body))
        ELSE Some(DecValue(body))

\* str::split(sep): the pieces between the separators, empty pieces included
RECURSIVE Split(_, _)
Split(s, sep) ==
    IF \A i \in 1..Len(s) : s[i] # sep THEN <<s>>
    ELSE LET p == CHOOSE i \in 1..Len(s) :
                      s[i] = sep /\ \A j \in 1..(i - 1) : s[j] # sep
         IN  <<SubSeq(s, 1, p - 1)>> \o Split(SubSeq(s, p + 1, Len(s)), sep)

StartsWith(s, p) == Len(s) >= Len(p) /\ SubSeq(s, 1, Len(p)) = p

(***************************************************************************)
(* yaml_rust::Yaml                                                         *)
(***************************************************************************)
YReal(r) == [tag |-> "Real", r |-> r]

YInteger(i) == [tag |-> "Integer", i |-> i]

YString(s) == [tag |-> "String", s |-> s]

YBoolean(b) == [tag |-> "Boolean", b |-> b]

YArray(a) == [tag |-> "Array", a |-> a]

\* a Hash is its entries <<key, value>> in insertion order, keys unique
YHash(h) == [tag |-> "Hash", h |-> h]

YAlias(n) == [tag |-> "Alias", id |-> n]

YNull == [tag |-> "Null"]

BadValue == [tag |-> "BadValue"]

\* Yaml: Index<&str> as used at lib.rs:73: only a Hash has fields, and the
\* field is looked up under the key Yaml::String(idx)
IndexStr(yobj, k) ==
    IF yobj.tag # "Hash" THEN BadValue
    ELSE LET hit == {n \in 1..Len(yobj.h) : yobj.h[n][1] = YString(k)}
         IN  IF hit = {} THEN BadValue
             ELSE yobj.h[CHOOSE n \in hit : \A m \in hit : n <= m][2]

\* Yaml: Index<usize> as used at lib.rs:69 (reached only when yobj is an Array)
IndexUsize(yobj, n) ==
    IF yobj.tag = "Array"
    THEN IF n < Len(yobj.a) THEN yobj.a[n + 1] ELSE BadValue
    ELSE IF yobj.tag = "Hash"
    THEN LET hit == {m \in 1..Len(yobj.h) : yobj.h[m][1] = YInteger(n)}
         IN  IF hit = {} THEN BadValue
             ELSE yobj.h[CHOOSE m \in hit : \A l \in hit : m <= l][2]
    ELSE BadValue

(***************************************************************************)
(* lib.rs                                                                  *)
(***************************************************************************)
BoolToString(b) == IF b THEN <<"t", "r", "u", "e">> ELSE <<"f", "a", "l", "s", "e">>

NullText == <<"n", "u", "l", "l">>

get_yaml_type(yaml_obj) ==
    CASE yaml_obj.tag = "Real" -> "real"
      [] yaml_obj.tag = "Integer" -> "integer"
      [] yaml_obj.tag = "String" -> "string"
      [] yaml_obj.tag = "Boolean" -> "boolean"
      [] yaml_obj.tag = "Array" -> "array"
      [] yaml_obj.tag = "Hash" -> "object"
      [] yaml_obj.tag = "Alias" -> "alias"
      [] yaml_obj.tag = "Null" -> "null"
      [] yaml_obj.tag = "BadValue" -> "BAD_YAML_VALUE"

\* mutant: a composite node is given a text, as get_yaml_type names it
get_string_from_yaml_object_composite(yaml_obj) ==
    CASE yaml_obj.tag = "Real" -> Some(yaml_obj.r)
      [] yaml_obj.tag = "Integer" -> Some(IntToString(yaml_obj.i))
      [] yaml_obj.tag = "String" -> Some(yaml_obj.s)
      [] yaml_obj.tag = "Boolean" -> Some(BoolToString(yaml_obj.b))
      [] yaml_obj.tag = "Null" -> Some(NullText)
      [] yaml_obj.tag = "Array" -> Some(<<"a", "r", "r", "a", "y">>)
      [] yaml_obj.tag = "Hash" -> Some(<<"o", "b", "j", "e", "c", "t">>)
      [] OTHER -> None

get_string_from_yaml_object(yaml_obj) ==
    CASE yaml_obj.tag = "Real" -> Some(yaml_obj.r)
      [] yaml_obj.tag = "Integer" -> Some(IntToString(yaml_obj.i))
      [] yaml_obj.tag = "String" -> Some(yaml_obj.s)
      [] yaml_obj.tag = "Boolean" -> Some(BoolToString(yaml_obj.b))
      [] yaml_obj.tag = "Null" -> Some(NullText)
      [] OTHER -> None

\* mutant: the `continue` after the index is missing, so the element found is
\* then looked up by field name
WalkStepNoContinue(yobj, k) ==
    IF yobj.tag = "Array" /\ ParseUsize(k).some
    THEN IndexStr(IndexUsize(yobj, ParseUsize(k).v), k)
    ELSE IndexStr(yobj, k)

\* one turn of the loop `for k in key_split` of YamlContext::get_value_from_key
WalkStep(yobj, k) ==
    IF yobj.tag = "Array" /\ ParseUsize(k).some
    THEN IndexUsize(yobj, ParseUsize(k).v)
    ELSE IndexStr(yobj, k)

RECURSIVE WalkLoop(_, _)
WalkLoop(yobj, key_split) ==
    IF key_split = <<>> THEN yobj
    ELSE WalkLoop(WalkStep(yobj, Head(key_split)), Tail(key_split))

YamlContext_get_value_from_key(yaml, key) ==
    LET yobj == WalkLoop(yaml, Split(key, "."))
    IN  IF yobj.tag = "BadValue" THEN None
        ELSE get_string_from_yaml_object(yobj)

\* std::env::var through get_env_str: a set variable that holds valid
\* unicode gives Some, anything else None.  env maps a name to
\* [set, unicode, val].
get_env_str(env, key) ==
    IF key \in DOMAIN env /\ env[key].set /\ env[key].unicode
    THEN Some(env[key].val)
    ELSE None

\* context_based_variable_substitution: impl Context for Vec<String>, the
\* positional lookup behind lib.rs:96
VecString_get_value_from_key(cli_args, key) ==
    LET idx == ParseUsize(key)
    IN  IF idx.some /\ idx.v < Len(cli_args) THEN Some(cli_args[idx.v + 1]) ELSE None

EnvPrefix == <<"E", "N", "V", ":">>

EnvPrefixLen == 4

\* mutant: an ENV: key the environment does not hold falls back to the arguments
ArgEnvContext_fallback(cli_args, env, key) ==
    IF StartsWith(key, EnvPrefix)
    THEN LET e == get_env_str(env, SubSeq(key, EnvPrefixLen + 1, Len(key)))
         IN  IF e.some THEN e
             ELSE VecString_get_value_from_key(cli_args, SubSeq(key, EnvPrefixLen + 1, Len(key)))
    ELSE VecString_get_value_from_key(cli_args, key)

\* mutant: the prefix is not cut off the name
ArgEnvContext_whole_key(cli_args, env, key) ==
    IF StartsWith(key, EnvPrefix)
    THEN get_env_str(env, key)
    ELSE VecString_get_value_from_key(cli_args, key)

ArgEnvContext_get_value_from_key(cli_args, env, key) ==
    IF StartsWith(key, EnvPrefix)
    THEN get_env_str(env, SubSeq(key, EnvPrefixLen + 1, Len(key)))
    ELSE VecString_get_value_from_key(cli_args, key)

\* the two implementations of the trait Context used by the pipeline
ArgEnvContext(cli_args, env) == [kind |-> "ArgEnv", cli_args |-> cli_args, env |-> env]

YamlContext(yaml) == [kind |-> "Yaml", yaml |-> yaml]

get_value_from_key(ctx, key) ==
    IF ctx.kind = "ArgEnv"
    THEN ArgEnvContext_get_value_from_key(ctx.cli_args, ctx.env, key)
    ELSE YamlContext_get_value_from_key(ctx.yaml, key)

(***************************************************************************)
(* context_based_variable_substitution::replace_all_from                   *)
(*                                                                         *)
(* One left-to-right scan.  A placeholder is "${{", a key (blanks around   *)
(* it dropped), "}}".  A key the context resolves is replaced by its value *)
(* and the value is not scanned again; a key it does not resolve is kept   *)
(* verbatim (FM_ignore) or stops the scan with a panic (FM_panic).         *)
(***************************************************************************)
Open == "${{"

Close == "}}"

FirstIndex(s, c) == CHOOSE i \in 1..Len(s) : s[i] = c /\ \A j \in 1..(i - 1) : s[j] # c

Contains(s, c) == \E i \in 1..Len(s) : s[i] = c

RECURSIVE Trim(_)
Trim(s) ==
    IF s # <<>> /\ s[1] = " " THEN Trim(Tail(s))
    ELSE IF s # <<>> /\ s[Len(s)] = " " THEN Trim(SubSeq(s, 1, Len(s) - 1))
    ELSE s

Replaced(text) == [panicked |-> FALSE, text |-> text]

Panicked(key) == [panicked |-> TRUE, key |-> key]

Prepend(prefix, r) == IF r.panicked THEN r ELSE Replaced(prefix \o r.text)

RECURSIVE replace_all_from(_, _, _)
replace_all_from(text, context, failure_mode) ==
    IF ~Contains(text, Open) THEN Replaced(text)
    ELSE LET p == FirstIndex(text, Open)
             rest == SubSeq(text, p + 1, Len(text))
         IN  IF ~Contains(rest, Close) THEN Replaced(text)
             ELSE LET q == FirstIndex(rest, Close)
                      raw == SubSeq(rest, 1, q - 1)
                      after == SubSeq(rest, q + 1, Len(rest))
                      val == get_value_from_key(context, Trim(raw))
                      before == SubSeq(text, 1, p - 1)
                  IN  IF val.some
                      THEN Prepend(before \o val.v,
                                   replace_all_from(after, context, failure_mode))
                      ELSE IF failure_mode = "FM_ignore"
                      THEN Prepend(before \o <<Open>> \o raw \o <<Close>>,
                                   replace_all_from(after, context, failure_mode))
                      ELSE Panicked(Trim(raw))

(***************************************************************************)
(* yaml_rust::YamlLoader::load_from_str, on the flow-style subset of YAML  *)
(* the model's texts are written in:                                       *)
(*   stream ::= <empty> | node ( "---" node )*                             *)
(*   node   ::= '"' chars '"' | plain | "[" node,* "]" | "{" entry,* "}"   *)
(*   entry  ::= scalar ":" node                                            *)
(* A quoted scalar is a String; a plain scalar is typed as Yaml::from_str  *)
(* types it.  (No scalar of the model is hexadecimal, octal, an exponent   *)
(* form, or inf/nan.)                                                      *)
(***************************************************************************)
Quote == "\""

DocSep == "---"

Structural == {"{", "}", "[", "]", ",", ":", Quote, DocSep}

IsDecimal(body) ==
    \/ AllDigits(body)
    \/ /\ Contains(body, ".")
       /\ LET d == FirstIndex(body, ".")
              int == SubSeq(body, 1, d - 1)
              frac == SubSeq(body, d + 1, Len(body))
          IN  /\ int # <<>> \/ frac # <<>>
              /\ int = <<>> \/ AllDigits(int)
              /\ frac = <<>> \/ AllDigits(frac)

\* str::parse::<f64>().is_ok(), decimal forms only
ParsesAsF64(v) ==
    IsDecimal(IF v # <<>> /\ v[1] \in {"+", "-"} THEN Tail(v) ELSE v)

\* Yaml::from_str
ScalarFromStr(v) ==
    IF v # <<>> /\ v[1] = "+" /\ ParseI64(Tail(v)).some THEN YInteger(ParseI64(Tail(v)).v)
    ELSE IF v = <<"~">> \/ v = NullText THEN YNull
    ELSE IF v = BoolToString(TRUE) THEN YBoolean(TRUE)
    ELSE IF v = BoolToString(FALSE) THEN YBoolean(FALSE)
    ELSE IF ParseI64(v).some THEN YInteger(ParseI64(v).v)
    ELSE IF ParsesAsF64(v) THEN YReal(v)
    ELSE YString(v)

ParseFail == [ok |-> FALSE]

ParseOk(val, next) == [ok |-> TRUE, val |-> val, next |-> next]

\* LinkedHashMap::insert: a key already present takes the new value
HashInsert(h, k, v) ==
    SelectSeq(h, LAMBDA e : e[1] # k) \o << <<k, v>> >>

RECURSIVE ParseNode(_, _)
RECURSIVE ParseItems(_, _, _)
RECURSIVE ParseEntries(_, _, _)

ParseNode(s, i) ==
    IF i > Len(s) THEN ParseFail
    ELSE IF s[i] = Quote
    THEN LET close == {j \in (i + 1)..Len(s) : s[j] = Quote}
         IN  IF close = {} THEN ParseFail
             ELSE LET j == CHOOSE x \in close : \A y \in close : x <= y
                  IN  ParseOk(YString(SubSeq(s, i + 1, j - 1)), j + 1)
    ELSE IF s[i] = "[" THEN ParseItems(s, i + 1, <<>>)
    ELSE IF s[i] = "{" THEN ParseEntries(s, i + 1, <<>>)
    ELSE IF s[i] \in Structural THEN ParseFail
    ELSE LET stop == {j \in i..Len(s) : s[j] \in Structural} \cup {Len(s) + 1}
             j == CHOOSE x \in stop : \A y \in stop : x <= y
         IN  ParseOk(ScalarFromStr(Trim(SubSeq(s, i, j - 1))), j)

ParseItems(s, i, acc) ==
    IF i > Len(s) THEN ParseFail
    ELSE IF s[i] = "]" THEN ParseOk(YArray(acc), i + 1)
    ELSE LET r == ParseNode(s, i)
         IN  IF ~r.ok \/ r.next > Len(s) THEN ParseFail
             ELSE IF s[r.next] = "," THEN ParseItems(s, r.next + 1, Append(acc, r.val))
             ELSE IF s[r.next] = "]" THEN ParseOk(YArray(Append(acc, r.val)), r.next + 1)
             ELSE ParseFail

ParseEntries(s, i, acc) ==
    IF i > Len(s) THEN ParseFail
    ELSE IF s[i] = "}" THEN ParseOk(YHash(acc), i + 1)
    ELSE IF s[i] \in {"[", "{"} THEN ParseFail
    ELSE LET k == ParseNode(s, i)
         IN  IF ~k.ok \/ k.next > Len(s) \/ s[k.next] # ":" THEN ParseFail
             ELSE LET r == ParseNode(s, k.next + 1)
                  IN  IF ~r.ok \/ r.next > Len(s) THEN ParseFail
                      ELSE IF s[r.next] = ","
                      THEN ParseEntries(s, r.next + 1, HashInsert(acc, k.val, r.val))
                      ELSE IF s[r.next] = "}"
                      THEN ParseOk(YHash(HashInsert(acc, k.val, r.val)), r.next + 1)
                      ELSE ParseFail

RECURSIVE ParseDocs(_, _, _)
ParseDocs(s, i, acc) ==
    LET r == ParseNode(s, i)
    IN  IF ~r.ok THEN [ok |-> FALSE]
        ELSE IF r.next > Len(s) THEN [ok |-> TRUE, docs |-> Append(acc, r.val)]
        ELSE IF s[r.next] = DocSep THEN ParseDocs(s, r.next + 1, Append(acc, r.val))
        ELSE [ok |-> FALSE]

YamlLoader_load_from_str(s) ==
    IF Trim(s) = <<>> THEN [ok |-> TRUE, docs |-> <<>>] ELSE ParseDocs(s, 1, <<>>)

\* Result<Vec<Yaml>, Error> and Result<String, Error>
Ok(x) == [ok |-> TRUE, v |-> x]

Err(kind, msg) == [ok |-> FALSE, kind |-> kind, msg |-> msg]

\* mutant: an empty document list is let through
load_yaml_from_str_unchecked(yaml_str) ==
    LET yaml_doc == YamlLoader_load_from_str(yaml_str)
    IN  IF ~yaml_doc.ok
        THEN Err("InvalidInput", "Failed to parse yaml file")
        ELSE Ok(yaml_doc.docs)

load_yaml_from_str(yaml_str) ==
    LET yaml_doc == YamlLoader_load_from_str(yaml_str)
    IN  IF ~yaml_doc.ok
        THEN Err("InvalidInput", "Failed to parse yaml file")
        ELSE IF Len(yaml_doc.docs) = 0
        THEN Err("InvalidInput", "Cannot proceed with empty yaml file")
        ELSE Ok(yaml_doc.docs)

(***************************************************************************)
(* Inputs of the pipeline: texts, command-line arguments, environment      *)
(***************************************************************************)
MaxArgs == 2

Q(s) == <<Quote>> \o s \o <<Quote>>

\* the placeholder ${{ key }}
PH(key) == <<Open, " ">> \o key \o <<" ", Close>>

Entry(k, v) == k \o <<":">> \o v

EnvT == <<"E", "N", "V", ":", "T">>

\* values of the field a
AVals ==
    { Q(<<"x">>),
      <<"{">> \o Entry(<<"b">>, Q(<<"x">>)) \o <<"}">>,
      Q(PH(<<"0">>)),
      Q(PH(EnvT)),
      <<"0", "0", "7">>,
      <<"[">> \o Q(<<"p">>) \o <<",">> \o Q(PH(<<"1">>)) \o <<"]">>,
      Q(PH(<<"c">>)) }

\* values of the field c
CVals ==
    { Q(PH(<<"a">>)),
      Q(PH(<<"a", ".", "b">>)),
      Q(PH(<<"a", ".", "1">>)),
      Q(<<"h", " ">> \o PH(EnvT) \o <<" ", "w">>),
      Q(PH(<<"0">>)),
      Q(PH(<<"z">>)),
      Q(<<"y">>) }

\* what follows the fields a and c: nothing, a field named ENV:T, a field
\* named 0, or a second document
Extras ==
    { <<"}">>,
      <<",">> \o Entry(Q(EnvT), Q(<<"f">>)) \o <<"}">>,
      <<",">> \o Entry(Q(<<"0">>), Q(<<"s">>)) \o <<"}">>,
      <<"}", DocSep, "{">> \o Entry(<<"z">>, Q(<<"d">>)) \o <<"}">> }

Templates ==
    { <<"{">> \o Entry(<<"a">>, a) \o <<",">> \o Entry(<<"c">>, c) \o x :
          a \in AVals, c \in CVals, x \in Extras }
    \cup { <<>>,
           <<" ">>,
           <<"{">> \o Entry(<<"a">>, <<"[">>),
           <<"[">> \o Q(<<"p">>) \o <<",">> \o Q(PH(<<"1">>)) \o <<"]">>,
           Q(<<"y">>) }

ArgVals == { <<"v">>, PH(<<"a">>), <<Quote>> }

SeqsUpTo(S, n) == UNION {[1..m -> S] : m \in 0..n}

EnvName == <<"T">>

EnvVals ==
    { [set |-> FALSE, unicode |-> TRUE, val |-> <<>>],
      [set |-> TRUE, unicode |-> TRUE, val |-> <<"B">>],
      [set |-> TRUE, unicode |-> FALSE, val |-> <<>>] }

Entries == {"read_yaml_string_from_string", "read_yaml_from_file"}

(***************************************************************************)
(* The pipeline: read_yaml_string_from_string and read_yaml_from_file      *)
(***************************************************************************)
VARIABLES
    entry,         \* the function called
    file,          \* read_yaml_from_file: whether the file can be read
    yaml_str,      \* the input text
    cli_args,
    env,
    pc,            \* the position in the function
    yaml_out_str,
    yaml_doc,      \* Vec<Yaml> loaded from the stage-1 output
    result,        \* the value returned, or the panic
    stage1_out,    \* history: the text as stage 1 left it
    steps,         \* history: the steps taken, in order
    call           \* one call of a Context's get_value_from_key (LookupSpec)

pipeline == <<entry, file, yaml_str, cli_args, env, pc, yaml_out_str, yaml_doc,
              result, stage1_out, steps>>

vars == <<pipeline, call>>

NoCall == [ctx |-> "none"]

NoResult == [kind |-> "none"]

Returned(r) == [kind |-> "returned", r |-> r]

Panic(key) == [kind |-> "panic", key |-> key]

Init ==
    /\ entry \in Entries
    /\ file \in IF entry = "read_yaml_from_file" THEN BOOLEAN ELSE {TRUE}
    /\ yaml_str \in IF file THEN Templates ELSE {<<>>}
    /\ cli_args \in IF file THEN SeqsUpTo(ArgVals, MaxArgs) ELSE {<<>>}
    /\ env \in IF file THEN [{EnvName} -> EnvVals] ELSE {[n \in {EnvName} |-> CHOOSE e \in EnvVals : ~e.set /\ e.unicode]}
    /\ pc = IF entry = "read_yaml_from_file" THEN "open" ELSE "stage1"
    /\ yaml_out_str = <<>>
    /\ yaml_doc = <<>>
    /\ result = NoResult
    /\ stage1_out = <<>>
    /\ steps = <<>>
    /\ call = NoCall

\* lib.rs:168-170: File::open(file_path)? and file.read_to_string(..)?
OpenFile ==
    /\ pc = "open"
    /\ IF file
       THEN pc' = "stage1" /\ result' = result
       ELSE pc' = "returned" /\ result' = Returned(Err("NotFound", "io"))
    /\ steps' = Append(steps, "open")
    /\ UNCHANGED <<entry, file, yaml_str, cli_args, env, yaml_out_str, yaml_doc, stage1_out, call>>

\* mutant: stage 1 run in the fatal mode
Stage1ModeFatal == "FM_panic"

Stage1Mode == "FM_ignore"

\* mutant: stage 2 run in the non-fatal mode
Stage2ModeIgnore == "FM_ignore"

Stage2Mode == "FM_panic"

\* lib.rs:129-139
Stage1 ==
    /\ pc = "stage1"
    /\ LET r == replace_all_from(yaml_str, ArgEnvContext(cli_args, env), Stage1Mode)
       IN  IF r.panicked
           THEN /\ pc' = "panicked"
                /\ result' = Panic(r.key)
                /\ UNCHANGED <<yaml_out_str, stage1_out>>
           ELSE /\ pc' = "load"
                /\ yaml_out_str' = r.text
                /\ stage1_out' = r.text
                /\ result' = result
    /\ steps' = Append(steps, "stage1")
    /\ UNCHANGED <<entry, file, yaml_str, cli_args, env, yaml_doc, call>>

\* lib.rs:140: load_yaml_from_str(&yaml_out_str)?
Load ==
    /\ pc = "load"
    /\ LET r == load_yaml_from_str(yaml_out_str)
       IN  IF r.ok
           THEN pc' = "stage2" /\ yaml_doc' = r.v /\ result' = result
           ELSE pc' = "returned" /\ yaml_doc' = yaml_doc /\ result' = Returned(r)
    /\ steps' = Append(steps, "load")
    /\ UNCHANGED <<entry, file, yaml_str, cli_args, env, yaml_out_str, stage1_out, call>>

\* mutant: stage 2 run over the raw input
Stage2InputRaw == yaml_str

\* the text stage 2 substitutes over (lib.rs:154)
Stage2Input == yaml_out_str

\* mutant: the context built over the last document
Stage2ContextLast == YamlContext(yaml_doc[Len(yaml_doc)])

\* the document stage 2 resolves keys in (lib.rs:148-150)
Stage2Context == YamlContext(yaml_doc[1])

\* mutant: the substituted text substituted once more
Stage2ResultAgain ==
    LET r == replace_all_from(yaml_out_str, YamlContext(yaml_doc[1]), "FM_panic")
    IN  IF r.panicked THEN r
        ELSE replace_all_from(r.text, YamlContext(yaml_doc[1]), "FM_ignore")

\* lib.rs:153-157: one call of replace_all_from
Stage2Result == replace_all_from(Stage2Input, Stage2Context, Stage2Mode)

\* lib.rs:148-158, and for read_yaml_from_file the `?` of lib.rs:171
Stage2 ==
    /\ pc = "stage2"
    /\ LET r == Stage2Result
       IN  IF r.panicked
           THEN /\ pc' = "panicked"
                /\ result' = Panic(r.key)
                /\ yaml_out_str' = yaml_out_str
           ELSE /\ yaml_out_str' = r.text
                /\ IF entry = "read_yaml_from_file"
                   THEN pc' = "reload" /\ result' = result
                   ELSE pc' = "returned" /\ result' = Returned(Ok(r.text))
    /\ steps' = Append(steps, "stage2")
    /\ UNCHANGED <<entry, file, yaml_str, cli_args, env, yaml_doc, stage1_out, call>>

\* lib.rs:172-173: read_yaml_from_file loads the substituted text
Reload ==
    /\ pc = "reload"
    /\ pc' = "returned"
    /\ result' = Returned(load_yaml_from_str(yaml_out_str))
    /\ steps' = Append(steps, "reload")
    /\ UNCHANGED <<entry, file, yaml_str, cli_args, env, yaml_out_str, yaml_doc, stage1_out, call>>

Next == OpenFile \/ Stage1 \/ Load \/ Stage2 \/ Reload

Spec == Init /\ [][Next]_vars

(***************************************************************************)
(* Single calls of YamlContext::get_value_from_key and of                  *)
(* ArgEnvContext::get_value_from_key, over bounded documents and keys      *)
(***************************************************************************)
MaxSegs == 3

Segs == { <<"a">>, <<"b">>, <<"0">>, <<"1">>, <<"3">> }

RECURSIVE Join(_)
Join(segs) ==
    IF Len(segs) = 1 THEN segs[1] ELSE segs[1] \o <<".">> \o Join(Tail(segs))

DottedKeys == { Join(segs) : segs \in UNION {[1..m -> Segs] : m \in 1..MaxSegs} }

OddKeys ==
    { <<>>, <<"a", ".">>, <<".", "a">>, <<"a", ".", ".", "b">>, <<"+", "1">>,
      <<"a", ".", "+", "1">>, <<"a", ".", "0", "1">>, <<"a", ".", "-", "1">>,
      <<"-", "1">>, <<"0", "1">> }

ArgEnvKeys ==
    { <<"0">>, <<"1">>, <<"2">>, <<"3">>, <<"+", "1">>, <<"0", "1">>, <<"-", "1">>,
      <<"a">>, <<>>, <<"0", ".", "1">>, <<"T">>,
      EnvT, EnvPrefix, EnvPrefix \o <<"Z">>, EnvPrefix \o <<"0">>,
      <<"E", "N", "V">>, <<"e", "n", "v", ":", "T">>, <<" ">> \o EnvT }

Str(s) == YString(s)

Field(k, v) == <<YString(k), v>>

Composites ==
    { YArray(<<Str(<<"p">>), Str(<<"q">>)>>),
      YHash(<<Field(<<"b">>, Str(<<"x">>))>>) }

Leaves ==
    { YReal(<<"1", ".", "5">>), YInteger(7), YInteger(-3), Str(<<"x">>), Str(<<>>),
      YBoolean(TRUE), YBoolean(FALSE), YNull, YAlias(1), BadValue }
    \cup Composites

Elems == { Str(<<"x">>), YInteger(7) } \cup Composites

\* a mapping with the fields a and b, each present or not
HashOf(a, b) ==
    YHash((IF a.some THEN <<Field(<<"a">>, a.v)>> ELSE <<>>)
          \o (IF b.some THEN <<Field(<<"b">>, b.v)>> ELSE <<>>))

ExampleRoots ==
    { \* a four-element sequence under a field
      YHash(<<Field(<<"a">>, YArray(<<Str(<<"p">>), Str(<<"q">>), Str(<<"r">>), Str(<<"d">>)>>))>>),
      \* three levels of mappings
      YHash(<<Field(<<"a">>, YHash(<<Field(<<"b">>, YHash(<<Field(<<"a">>, Str(<<"d">>))>>))>>))>>),
      \* a sequence of mappings, and a sequence of sequences
      YArray(<<YHash(<<Field(<<"a">>, Str(<<"x">>))>>), YArray(<<YInteger(7), YNull>>)>>),
      \* an Integer key, a String key of digits, an empty key, a key with a dot
      YHash(<< <<YInteger(0), Str(<<"n">>)>>, Field(<<"1">>, Str(<<"s">>)) >>),
      YHash(<< Field(<<>>, Str(<<"e">>)), Field(<<"a", ".", "b">>, Str(<<"d">>)) >>),
      YHash(<< Field(<<"a">>, YHash(<< Field(<<>>, Str(<<"e">>)), Field(<<"0">>, Str(<<"z">>)) >>)) >>) }

Roots ==
    Leaves
    \cup { YArray(s) : s \in SeqsUpTo(Elems, 2) }
    \cup { HashOf(a, b) : a \in {None} \cup {Some(l) : l \in Leaves},
                          b \in {None} \cup {Some(l) : l \in Elems} }
    \cup ExampleRoots

EnvUnset == [n \in {EnvName} |-> [set |-> FALSE, unicode |-> TRUE, val |-> <<>>]]

YamlCall(yaml, key) ==
    [ctx |-> "Yaml", yaml |-> yaml, cli_args |-> <<>>, env |-> EnvUnset, key |-> key,
     done |-> FALSE, node |-> BadValue, out |-> None]

ArgEnvCall(args, e, key) ==
    [ctx |-> "ArgEnv", yaml |-> YNull, cli_args |-> args, env |-> e, key |-> key,
     done |-> FALSE, node |-> BadValue, out |-> None]

LookupInit ==
    /\ call \in { YamlCall(y, k) : y \in Roots, k \in DottedKeys \cup OddKeys }
                \cup { ArgEnvCall(a, e, k) : a \in SeqsUpTo(ArgVals, MaxArgs),
                                             e \in [{EnvName} -> EnvVals],
                                             k \in ArgEnvKeys }
    /\ entry = "none"
    /\ file = TRUE
    /\ yaml_str = <<>>
    /\ cli_args = <<>>
    /\ env = EnvUnset
    /\ pc = "idle"
    /\ yaml_out_str = <<>>
    /\ yaml_doc = <<>>
    /\ result = NoResult
    /\ stage1_out = <<>>
    /\ steps = <<>>

\* lib.rs:62-80; node is the yobj the loop ends on
CallYamlContext ==
    /\ call.ctx = "Yaml" /\ ~call.done
    /\ call' = [call EXCEPT !.done = TRUE,
                            !.node = WalkLoop(call.yaml, Split(call.key, ".")),
                            !.out = YamlContext_get_value_from_key(call.yaml, call.key)]
    /\ UNCHANGED pipeline

\* lib.rs:87-98
CallArgEnvContext ==
    /\ call.ctx = "ArgEnv" /\ ~call.done
    /\ call' = [call EXCEPT !.done = TRUE,
                            !.out = ArgEnvContext_get_value_from_key(
                                        call.cli_args, call.env, call.key)]
    /\ UNCHANGED pipeline

LookupNext == CallYamlContext \/ CallArgEnvContext

LookupSpec == LookupInit /\ [][LookupNext]_vars

(***************************************************************************)
(* Vocabulary of the claims                                                *)
(***************************************************************************)
RECURSIVE Flatten(_)
Flatten(ss) == IF ss = <<>> THEN <<>> ELSE Head(ss) \o Flatten(Tail(ss))

Lit(t) == [hole |-> FALSE, text |-> t]

Hole(raw) == [hole |-> TRUE, text |-> <<Open>> \o raw \o <<Close>>, key |-> Trim(raw)]

\* a text as its literal stretches and its placeholders, in order
RECURSIVE Pieces(_)
Pieces(t) ==
    IF t = <<>> THEN <<>>
    ELSE IF ~Contains(t, Open) THEN <<Lit(t)>>
    ELSE LET p == FirstIndex(t, Open)
             rest == SubSeq(t, p + 1, Len(t))
         IN  IF ~Contains(rest, Close) THEN <<Lit(t)>>
             ELSE LET q == FirstIndex(rest, Close)
                  IN  (IF p = 1 THEN <<>> ELSE <<Lit(SubSeq(t, 1, p - 1))>>)
                      \o <<Hole(SubSeq(rest, 1, q - 1))>>
                      \o Pieces(SubSeq(rest, q + 1, Len(rest)))

HolesOf(ps) == {i \in 1..Len(ps) : ps[i].hole}

Holes(t) == HolesOf(Pieces(t))

HoleKeys(t) == LET ps == Pieces(t) IN {ps[i].key : i \in HolesOf(ps)}

External(key) == ArgEnvContext_get_value_from_key(cli_args, env, key)

InDocument(key) == YamlContext_get_value_from_key(yaml_doc[1], key)

\* the text with every placeholder the resolver knows replaced by its value
\* and every other piece kept as it is
Filled(t, Resolve(_)) ==
    LET ps == Pieces(t)
    IN  Flatten([i \in 1..Len(ps) |->
                    IF ps[i].hole /\ Resolve(ps[i].key).some
                    THEN Resolve(ps[i].key).v
                    ELSE ps[i].text])

Did(step) == \E i \in 1..Len(steps) : steps[i] = step

Times(step) == Cardinality({i \in 1..Len(steps) : steps[i] = step})

LastStep == IF steps = <<>> THEN "none" ELSE steps[Len(steps)]

ReturnedOk == result.kind = "returned" /\ result.r.ok

ReturnedErr == result.kind = "returned" /\ ~result.r.ok

FromString == entry = "read_yaml_string_from_string"

\* the placeholders of the stage-1 output that the first document does not resolve
Unresolved ==
    LET ps == Pieces(stage1_out)
    IN  {i \in HolesOf(ps) : ~InDocument(ps[i].key).some}

FirstUnresolved == CHOOSE i \in Unresolved : \A j \in Unresolved : i <= j

IsPrefix(s, t) == Len(s) <= Len(t) /\ s = SubSeq(t, 1, Len(s))

(***************************************************************************)
(* C1                                                                      *)
(***************************************************************************)
\* C1, as stated: when stage 2 meets a key that the Document Context does not
\* resolve, the caller gets an Err result (the process is not aborted).
C1_ErrOnUnresolved ==
    (Did("stage2") /\ Unresolved # {}) => ReturnedErr

\* C1, amended: when stage 2 meets a key that the Document Context does not
\* resolve, read_yaml_string_from_string panics at the first such key: it
\* returns nothing, neither an Err nor an Ok text, so no text with an empty
\* substitution or a verbatim placeholder is returned; and stage 2 itself never
\* yields an Err.
C1_PanicOnUnresolved ==
    /\ (Did("stage2") /\ Unresolved # {}) =>
           /\ pc = "panicked"
           /\ result = Panic(Pieces(stage1_out)[FirstUnresolved].key)
           /\ yaml_out_str = stage1_out
    /\ (Did("stage2") /\ Unresolved = {}) => pc # "panicked"
    /\ (Did("stage2") /\ FromString /\ pc = "returned") =>
           /\ ReturnedOk
           /\ Unresolved = {}

C1_Witness ==
    /\ FromString /\ pc = "panicked" /\ Did("stage2")
    /\ Cardinality(Unresolved) >= 2

(***************************************************************************)
(* C2                                                                      *)
(***************************************************************************)
\* C2: stage 1 never fails: it always hands a text on to the parse, in which
\* every placeholder the External Context resolves is replaced by the resolved
\* string and every other placeholder stands verbatim.
C2_Stage1NonFatal ==
    /\ LastStep = "stage1" => pc = "load" /\ result = NoResult
    /\ Did("stage1") =>
           /\ pc # "stage1"
           /\ stage1_out = Filled(yaml_str, External)

C2_Witness ==
    /\ pc = "load"
    /\ \E k \in HoleKeys(yaml_str) : External(k).some
    /\ \E k \in HoleKeys(yaml_str) : ~External(k).some
    /\ Holes(stage1_out) # {}

(***************************************************************************)
(* C3                                                                      *)
(***************************************************************************)
SelfRefNested ==
    <<"{">> \o Entry(<<"a">>, <<"{">> \o Entry(<<"b">>, Q(<<"x">>)) \o <<"}">>)
    \o <<",">> \o Entry(<<"c">>, Q(PH(<<"a", ".", "b">>))) \o <<"}">>

SelfRefToArg ==
    <<"{">> \o Entry(<<"a">>, Q(PH(<<"0">>)))
    \o <<",">> \o Entry(<<"c">>, Q(PH(<<"a">>))) \o <<"}">>

\* the field c of the first document of the text the pipeline ends with
FinalC ==
    LET r == load_yaml_from_str(yaml_out_str)
    IN  IF r.ok THEN IndexStr(r.v[1], <<"c">>) ELSE BadValue

\* C3: the steps run in the order stage 1, parse, stage 2, none of them twice;
\* the document of stage 2 is the first document parsed from the stage-1
\* output, and stage 2 substitutes over that same stage-1 output; so a
\* self-reference gives the value as stage 1 expanded it.
C3_Order ==
    /\ IsPrefix(SelectSeq(steps, LAMBDA st : st \in {"stage1", "load", "stage2"}),
                <<"stage1", "load", "stage2">>)
    /\ (Did("load") /\ ~(LastStep = "load" /\ pc = "returned")) =>
           yaml_doc = load_yaml_from_str(stage1_out).v
    /\ (Did("stage2") /\ pc # "panicked") =>
           LET r == replace_all_from(stage1_out,
                                     YamlContext(load_yaml_from_str(stage1_out).v[1]),
                                     "FM_panic")
           IN  ~r.panicked /\ yaml_out_str = r.text
    /\ (Did("stage2") /\ yaml_str = SelfRefNested) =>
           pc # "panicked" /\ FinalC = YString(<<"x">>)
    /\ (Did("stage2") /\ yaml_str = SelfRefToArg /\ cli_args = << <<"v">> >>) =>
           pc # "panicked" /\ FinalC = YString(<<"v">>)

C3_Witness ==
    /\ pc = "returned" /\ ReturnedOk
    /\ yaml_str = SelfRefToArg /\ cli_args = << <<"v">> >>
    /\ steps = <<"stage1", "load", "stage2">>

(***************************************************************************)
(* C4                                                                      *)
(***************************************************************************)
\* C4: when the stage-1 output does not parse, or parses to no document, the
\* call returns an InvalidInput error, stage 2 is not started and nothing
\* panics; and load_yaml_from_str gives Ok only with at least one document.
C4_LoadFailure ==
    /\ (Did("load") /\ LET l == YamlLoader_load_from_str(stage1_out)
                       IN  ~l.ok \/ l.docs = <<>>) =>
           /\ pc = "returned"
           /\ ReturnedErr
           /\ result.r.kind = "InvalidInput"
           /\ ~Did("stage2")
    /\ pc \in {"stage2", "reload", "panicked"} => Len(yaml_doc) > 0
    /\ LET r == load_yaml_from_str(yaml_out_str) IN r.ok => Len(r.v) > 0

C4_Witness ==
    /\ pc = "returned" /\ ReturnedErr /\ LastStep = "load"
    /\ YamlLoader_load_from_str(yaml_str).ok
    /\ ~YamlLoader_load_from_str(stage1_out).ok

(***************************************************************************)
(* C5                                                                      *)
(***************************************************************************)
Absent == BadValue

\* a segment that reads as a non-negative integer, and the integer
RefIsIndex(seg) ==
    LET d == IF seg # <<>> /\ seg[1] = "+" THEN Tail(seg) ELSE seg
    IN  d # <<>> /\ \A i \in 1..Len(d) : d[i] \in {Digits[j] : j \in 1..10}

RefIndex(seg) == DecValue(IF seg[1] = "+" THEN Tail(seg) ELSE seg)

RefStep(node, seg) ==
    IF node.tag = "Array" /\ RefIsIndex(seg)
    THEN IF RefIndex(seg) + 1 \in DOMAIN node.a THEN node.a[RefIndex(seg) + 1] ELSE Absent
    ELSE IF node.tag = "Hash" /\ \E n \in DOMAIN node.h : node.h[n][1] = YString(seg)
    THEN node.h[CHOOSE n \in DOMAIN node.h : node.h[n][1] = YString(seg)][2]
    ELSE Absent

RECURSIVE RefWalk(_, _)
RefWalk(node, segs) ==
    IF segs = <<>> THEN node
    ELSE IF node = Absent THEN Absent
    ELSE RefWalk(RefStep(node, Head(segs)), Tail(segs))

FourElements ==
    YHash(<<Field(<<"a">>, YArray(<<Str(<<"p">>), Str(<<"q">>), Str(<<"r">>), Str(<<"d">>)>>))>>)

\* C5: YamlContext::get_value_from_key is the reference walk over the segments
\* of the key: an index into a sequence, a field of a mapping otherwise; once
\* a step finds nothing the node is absent for good and the lookup gives None;
\* otherwise the final node is stringified.  "a.3" on a sequence of four gives
\* the fourth element, on a shorter one None.
C5_ReferenceWalk ==
    (call.ctx = "Yaml" /\ call.done) =>
        LET segs == Split(call.key, ".")
            final == RefWalk(call.yaml, segs)
        IN  /\ call.out = IF final = Absent THEN None
                          ELSE get_string_from_yaml_object(final)
            /\ (\E n \in 1..Len(segs) : RefWalk(call.yaml, SubSeq(segs, 1, n)) = Absent)
                   => call.out = None
            /\ (call.key = <<"a", ".", "3">> /\ call.yaml = FourElements)
                   => call.out = Some(<<"d">>)
            /\ (call.key = <<"a", ".", "3">> /\ call.yaml.tag = "Hash"
                    /\ IndexStr(call.yaml, <<"a">>).tag = "Array"
                    /\ Len(IndexStr(call.yaml, <<"a">>).a) <= 3)
                   => call.out = None

C5_Witness ==
    /\ call.ctx = "Yaml" /\ call.done
    /\ call.key = <<"a", ".", "3">> /\ call.yaml = FourElements
    /\ call.out = Some(<<"d">>)

(***************************************************************************)
(* C6                                                                      *)
(***************************************************************************)
ScalarTags == {"Real", "Integer", "String", "Boolean", "Null"}

\* the decimal text of an integer: a '-' if negative, digits, no leading zero
IsDecimalTextOf(t, i) ==
    /\ ParseI64(t) = Some(i)
    /\ t[1] # "+"
    /\ LET d == IF t[1] = "-" THEN Tail(t) ELSE t IN Len(d) = 1 \/ d[1] # "0"

\* C6: the node a key leads to gives a text exactly when it is a Real, an
\* Integer, a String, a Boolean or a Null, and then the text the table names;
\* a Sequence, a Mapping, an Alias or a BadValue gives None, so a key leading
\* to one is unresolved.
C6_ScalarsOnly ==
    (call.ctx = "Yaml" /\ call.done) =>
        /\ call.out.some <=> call.node.tag \in ScalarTags
        /\ call.node.tag = "Real" => call.out.v = call.node.r
        /\ call.node.tag = "Integer" => IsDecimalTextOf(call.out.v, call.node.i)
        /\ call.node.tag = "String" => call.out.v = call.node.s
        /\ call.node.tag = "Boolean" =>
               call.out.v = IF call.node.b THEN <<"t", "r", "u", "e">>
                            ELSE <<"f", "a", "l", "s", "e">>
        /\ call.node.tag = "Null" => call.out.v = <<"n", "u", "l", "l">>
        /\ call.node.tag \in {"Array", "Hash", "Alias", "BadValue"} => call.out = None

C6_Witness ==
    /\ call.ctx = "Yaml" /\ call.done
    /\ call.node.tag = "Hash"
    /\ call.out = None

(***************************************************************************)
(* C7                                                                      *)
(***************************************************************************)
RefIsEnvKey(key) ==
    Len(key) >= 4 /\ key[1] = "E" /\ key[2] = "N" /\ key[3] = "V" /\ key[4] = ":"

RefEnvName(key) == [i \in 1..(Len(key) - 4) |-> key[i + 4]]

RefEnvValue(e, name) ==
    IF name \in DOMAIN e /\ e[name].set /\ e[name].unicode THEN Some(e[name].val) ELSE None

RefPositional(args, key) ==
    IF RefIsIndex(key) /\ RefIndex(key) + 1 \in DOMAIN args
    THEN Some(args[RefIndex(key) + 1])
    ELSE None

\* C7: a key with the prefix ENV: is answered by the environment alone, under
\* the name after the prefix; any other key by the argument at that position
\* alone; and the call leaves the arguments and the environment as they were.
C7_Dispatch ==
    /\ [](  (call.ctx = "ArgEnv" /\ call.done) =>
              /\ call.out = IF RefIsEnvKey(call.key)
                            THEN RefEnvValue(call.env, RefEnvName(call.key))
                            ELSE RefPositional(call.cli_args, call.key)
              /\ (call.key = <<"0">> /\ call.cli_args # <<>>) =>
                     call.out = Some(call.cli_args[1]))
    /\ [][call'.cli_args = call.cli_args /\ call'.env = call.env]_vars

C7_Witness ==
    /\ call.ctx = "ArgEnv" /\ call.done
    /\ call.key = EnvPrefix \o <<"0">>
    /\ call.cli_args # <<>>
    /\ call.env[EnvName].set
    /\ call.out = None

(***************************************************************************)
(* C8                                                                      *)
(***************************************************************************)
EnvHolds == env[EnvName].set /\ env[EnvName].unicode

CountHoles(t, key) ==
    LET ps == Pieces(t) IN Cardinality({i \in HolesOf(ps) : ps[i].key = key})

\* C8, as stated: ENV:T resolves to the value of T when T is set; when T is
\* unset its placeholder is left unexpanded by stage 1 and the key is absent
\* from the Document Context of stage 2, whatever the document.
C8_AbsentInEveryDocument ==
    /\ EnvHolds => External(EnvT) = Some(env[EnvName].val)
    /\ (~env[EnvName].set /\ Did("stage1")) =>
           CountHoles(stage1_out, EnvT) >= CountHoles(yaml_str, EnvT)
    /\ (~env[EnvName].set /\ yaml_doc # <<>>) => InDocument(EnvT) = None

\* C8, amended: ENV:T resolves to the value of T when T is set to valid
\* unicode; otherwise its placeholder is left unexpanded by stage 1, and stage 2
\* looks the key up only as the field named "ENV:T" of the first document, and
\* never in the environment: the key is absent unless the root is a mapping
\* with a scalar field of that name.
C8_AbsentUnlessField ==
    /\ External(EnvT) = IF EnvHolds THEN Some(env[EnvName].val) ELSE None
    /\ (~EnvHolds /\ Did("stage1")) =>
           CountHoles(stage1_out, EnvT) >= CountHoles(yaml_str, EnvT)
    /\ yaml_doc # <<>> =>
           InDocument(EnvT) =
               IF /\ yaml_doc[1].tag = "Hash"
                  /\ \E n \in DOMAIN yaml_doc[1].h : yaml_doc[1].h[n][1] = YString(EnvT)
               THEN get_string_from_yaml_object(
                        yaml_doc[1].h[CHOOSE n \in DOMAIN yaml_doc[1].h :
                                          yaml_doc[1].h[n][1] = YString(EnvT)][2])
               ELSE None

C8_Witness ==
    /\ ~env[EnvName].set
    /\ pc = "returned" /\ ReturnedOk
    /\ CountHoles(yaml_str, EnvT) > 0
    /\ CountHoles(stage1_out, EnvT) > 0
    /\ InDocument(EnvT).some

(***************************************************************************)
(* C9                                                                      *)
(***************************************************************************)
MutualRefs ==
    <<"{">> \o Entry(<<"a">>, Q(PH(<<"c">>)))
    \o <<",">> \o Entry(<<"c">>, Q(PH(<<"a">>))) \o <<"}">>

\* the placeholders of the stage-1 output whose value in the document is
\* itself text with a placeholder
NestedRefs ==
    LET ps == Pieces(stage1_out)
    IN  {i \in HolesOf(ps) :
            /\ InDocument(ps[i].key).some
            /\ Holes(InDocument(ps[i].key).v) # {}}

\* C9: each pass runs once; the text returned is the stage-1 output with each
\* placeholder replaced by the value its key has in the document, as that
\* value stands: a value that is placeholder text is put in literally and is
\* not expanded.
C9_SinglePass ==
    /\ Times("stage1") <= 1 /\ Times("stage2") <= 1
    /\ (Did("stage2") /\ pc # "panicked") =>
           /\ yaml_out_str = Filled(stage1_out, InDocument)
           /\ NestedRefs # {} => Holes(yaml_out_str) # {}
    /\ (FromString /\ pc = "returned" /\ Did("stage2")) =>
           result.r.v = Filled(stage1_out, InDocument)
    /\ (Did("stage2") /\ yaml_str = MutualRefs /\ cli_args = <<>>) =>
           yaml_out_str =
               <<"{">> \o Entry(<<"a">>, Q(PH(<<"a">>)))
               \o <<",">> \o Entry(<<"c">>, Q(PH(<<"c">>))) \o <<"}">>

C9_Witness ==
    /\ FromString /\ pc = "returned" /\ ReturnedOk
    /\ NestedRefs # {}
    /\ Holes(result.r.v) # {}

(***************************************************************************)
(* C10                                                                     *)
(***************************************************************************)
\* C10: a placeholder stage 1 leaves unexpanded is in the text stage 2 runs
\* over, and stage 2 looks its key up in the first document only, in the fatal
\* mode: the call returns Ok only if every placeholder key of the stage-1
\* output resolves to a scalar in the first document, and otherwise panics at
\* the first that does not.  A placeholder whose key the External Context
\* resolves is replaced in stage 1 by the external value, whatever the
\* document holds under that key.
C10_SecondChance ==
    /\ Did("stage1") =>
           LET raw == Pieces(yaml_str)
           IN  /\ \A i \in HolesOf(raw) :
                      ~External(raw[i].key).some => raw[i].key \in HoleKeys(stage1_out)
               /\ \A i \in HolesOf(raw) :
                      External(raw[i].key).some =>
                          \E rest \in {SubSeq(stage1_out, n, Len(stage1_out)) :
                                            n \in 1..(Len(stage1_out) + 1)} :
                              /\ IsPrefix(External(raw[i].key).v, rest)
                              /\ Len(stage1_out) - Len(rest) =
                                     Len(Filled(Flatten([j \in 1..(i - 1) |-> raw[j].text]),
                                                External))
    /\ (Did("stage2") /\ pc # "panicked") =>
           \A k \in HoleKeys(stage1_out) :
               /\ YamlContext_get_value_from_key(yaml_doc[1], k).some
               /\ WalkLoop(yaml_doc[1], Split(k, ".")).tag \in ScalarTags
    /\ (FromString /\ ReturnedOk) => Did("stage2") /\ pc # "panicked"
    /\ pc = "panicked" =>
           /\ Did("stage2")
           /\ result.kind = "panic"
           /\ ~YamlContext_get_value_from_key(yaml_doc[1], result.key).some
           /\ LET out == Pieces(stage1_out)
              IN  \A i \in HolesOf(out) :
                      ~YamlContext_get_value_from_key(yaml_doc[1], out[i].key).some
                          => \E j \in HolesOf(out) : j <= i /\ out[j].key = result.key

C10_Witness ==
    /\ pc = "panicked"
    /\ Len(yaml_doc) = 2
    /\ YamlContext_get_value_from_key(yaml_doc[2], result.key).some
    /\ \E k \in HoleKeys(yaml_str) : External(k).some
    /\ result.key \in HoleKeys(yaml_str)

====
